---- MODULE Spec2Model ----
(***************************************************************************)
(* Model of wbgt_dashboard.py: the WBGT (heat-stress index) dashboard.     *)
(*                                                                         *)
(* Conventions                                                             *)
(*   - a WBGT value is kept in integer tenths of a degree (the forecast    *)
(*     feed's own unit: int(v)/10), so 28.0 is 280;                        *)
(*   - an optional value is a sequence: None is << >>, a present v is <<v>>*)
(*   - a naive datetime is a record [y, m, d, hh, mi];                     *)
(*   - the wall clock counts seconds from midnight of the start day;       *)
(*   - the pair fetch_forecast returns is [today, tomorrow], the pair       *)
(*     fetch_current returns is [Datetime, WBGT];                          *)
(*   - a call's outcome is [ok |-> TRUE, val |-> ...] or, for a raised     *)
(*     Python exception, [ok |-> FALSE, err |-> <exception class>].        *)
(***************************************************************************)
EXTENDS Integers, Sequences, FiniteSets, TLC

VARIABLES
    clock,      \* seconds elapsed since midnight of day StartOrd (dt.datetime.now())
    fcache,     \* st.cache_data store of fetch_forecast, keyed by pref_key
    ocache,     \* st.cache_data store of fetch_current, keyed by pref_key
    lastCall,   \* the cached call made at the current instant and what it returned
                \* (NoCall once the clock has moved on)
    arg,        \* argument of the function under study (function-level specifications)
    ret,        \* its return value or raised exception
    pc          \* "call" before the function has run, "done" after

vars == <<clock, fcache, ocache, lastCall, arg, ret, pc>>

Ok(v)  == [ok |-> TRUE, val |-> v]
Err(e) == [ok |-> FALSE, err |-> e]

None == << >>
Some(v) == <<v>>

Max(a, b) == IF a >= b THEN a ELSE b

-----------------------------------------------------------------------------
(* Bounds of the model                                                     *)

\* WBGT readings range over -MaxTenths..MaxTenths tenths of a degree
MaxTenths == 400
\* one more than the largest hour field a token carries (24 is the last valid)
MaxHourField == 25
\* data columns of a forecast line, after the two leading ones
MaxCols == 3
\* rows of an observation table
MaxRows == 3
\* entries of a forecast series handed to the advisory
MaxSeries == 3
\* seconds the clock advances in one step, and how many steps it takes
TickSeconds == 600
MaxTicks == 4
\* calendar years the tokens are drawn from: century, leap and common years
Years == {1999, 2000, 2023, 2024, 2100}

-----------------------------------------------------------------------------
(* The proleptic Gregorian calendar of Python's datetime                   *)

IsLeap(y) == (y % 4 = 0) /\ ((y % 100 # 0) \/ (y % 400 = 0))

DaysInMonth(y, m) ==
    IF m = 2 THEN (IF IsLeap(y) THEN 29 ELSE 28)
    ELSE IF m \in {4, 6, 9, 11} THEN 30 ELSE 31

\* _DAYS_BEFORE_MONTH of a common year
DaysBeforeMonthCommon(m) ==
    <<0, 31, 59, 90, 120, 151, 181, 212, 243, 273, 304, 334>>[m]

DaysBeforeMonth(y, m) ==
    DaysBeforeMonthCommon(m) + (IF m > 2 /\ IsLeap(y) THEN 1 ELSE 0)

DaysBeforeYear(y) ==
    (y - 1) * 365 + ((y - 1) \div 4) - ((y - 1) \div 100) + ((y - 1) \div 400)

\* date.toordinal(): 0001-01-01 is day 1
Ymd2Ord(y, m, d) == DaysBeforeYear(y) + DaysBeforeMonth(y, m) + d

\* date.fromordinal(), as datetime's _ord2ymd computes it
Ord2Ymd(n) ==
    LET n0   == n - 1
        n400 == n0 \div 146097
        r400 == n0 % 146097
        n100 == r400 \div 36524
        r100 == r400 % 36524
        n4   == r100 \div 1461
        r4   == r100 % 1461
        n1   == r4 \div 365
        r1   == r4 % 365
        year == n400 * 400 + 1 + n100 * 100 + n4 * 4 + n1
    IN  IF n1 = 4 \/ n100 = 4
        THEN [y |-> year - 1, m |-> 12, d |-> 31]
        ELSE
          LET leap  == (n1 = 3) /\ ((n4 # 24) \/ (n100 = 3))
              extra(mm) == IF mm > 2 /\ leap THEN 1 ELSE 0
              mGuess == (r1 + 50) \div 32
              pGuess == DaysBeforeMonthCommon(mGuess) + extra(mGuess)
              month == IF pGuess > r1 THEN mGuess - 1 ELSE mGuess
              preceding == DaysBeforeMonthCommon(month) + extra(month)
          IN  [y |-> year, m |-> month, d |-> r1 - preceding + 1]

\* strptime(s, '%Y%m%d') accepts exactly the dates of the calendar
ValidDate(y, m, d) == (m \in 1..12) /\ (d >= 1) /\ (d <= DaysInMonth(y, m))

\* datetime + timedelta(days=n): through the ordinal
AddDays(t, n) ==
    LET ymd == Ord2Ymd(Ymd2Ord(t.y, t.m, t.d) + n)
    IN  [t EXCEPT !.y = ymd.y, !.m = ymd.m, !.d = ymd.d]

DateOf(t) == Ymd2Ord(t.y, t.m, t.d)

\* the order of naive datetimes
DtKey(t) == (DateOf(t) * 24 + t.hh) * 60 + t.mi

-----------------------------------------------------------------------------
(* parse_header_time: a token "YYYYMMDDHH" is the tuple <<y, m, d, h>>     *)

\* the mutant: the hour is reset at 24 but the day is not advanced
parse_header_time_norollover(tok) ==
    IF ~ValidDate(tok[1], tok[2], tok[3]) THEN Err("ValueError")
    ELSE LET base == [y |-> tok[1], m |-> tok[2], d |-> tok[3], hh |-> 0, mi |-> 0]
             h    == tok[4]
         IN  IF h = 24 THEN Ok([base EXCEPT !.hh = 0])
             ELSE IF h \in 0..23 THEN Ok([base EXCEPT !.hh = h])
             ELSE Err("ValueError")

parse_header_time(tok) ==
    IF ~ValidDate(tok[1], tok[2], tok[3])
    THEN Err("ValueError")                    \* strptime rejects the date
    ELSE LET base == [y |-> tok[1], m |-> tok[2], d |-> tok[3], hh |-> 0, mi |-> 0]
             h    == tok[4]
         IN  IF h = 24
             THEN Ok([AddDays(base, 1) EXCEPT !.hh = 0])
             ELSE IF h \in 0..23
                  THEN Ok([base EXCEPT !.hh = h])
                  ELSE Err("ValueError")      \* replace(hour=h) rejects h > 23

-----------------------------------------------------------------------------
(* risk_level: the tier label and its colour                               *)

\* the mutant: the boundaries belong to the lower tier
risk_level_inclusive_upper(val) ==
    IF val = None THEN <<"N/A", "#CCCCCC">>
    ELSE IF val[1] <= 210 THEN <<"Safe", "#8fd175">>
    ELSE IF val[1] <= 250 THEN <<"Caution", "#69c6ff">>
    ELSE IF val[1] <= 280 THEN <<"Warning", "#fff15c">>
    ELSE IF val[1] <= 310 THEN <<"SevereWarning", "#ffa54c">>
    ELSE <<"Danger", "#ff4c4c">>

risk_level(val) ==
    IF val = None THEN <<"N/A", "#CCCCCC">>
    ELSE IF val[1] < 210 THEN <<"Safe", "#8fd175">>
    ELSE IF val[1] < 250 THEN <<"Caution", "#69c6ff">>
    ELSE IF val[1] < 280 THEN <<"Warning", "#fff15c">>
    ELSE IF val[1] < 310 THEN <<"SevereWarning", "#ffa54c">>
    ELSE <<"Danger", "#ff4c4c">>

-----------------------------------------------------------------------------
(* The wall clock: dt.datetime.now()                                       *)

\* the day the clock starts in: 2024-12-30, so that the next two days
\* cross a month end and a year end
StartOrd == Ymd2Ord(2024, 12, 30)

SecondsPerDay == 24 * 3600

\* dt.datetime.now().date(), as an ordinal
TodayAt(now) == StartOrd + (now \div SecondsPerDay)

-----------------------------------------------------------------------------
(* fetch_forecast: the body under the cache decorator                      *)
(*                                                                         *)
(* An upstream reply is [status |-> "down"] when requests.get raises, or   *)
(* [status |-> "ok", lines |-> txt.splitlines()] with every line already   *)
(* split at the commas: a header cell is a token <<y, m, d, h>> or the     *)
(* empty string << >>, a value cell is <<tenths>> or the empty string.     *)

\* line.split(',')[2:]
FromThird(line) == SubSeq(line, 3, Len(line))

\* [x for x in cells if x]
RECURSIVE NonEmpty(_)
NonEmpty(cells) ==
    IF cells = << >> THEN << >>
    ELSE IF Head(cells) = << >> THEN NonEmpty(Tail(cells))
         ELSE <<Head(cells)>> \o NonEmpty(Tail(cells))

\* int(v.strip())/10 if v.strip() else None, the value kept in tenths
CellValue(cell) == IF cell = << >> THEN None ELSE Some(cell[1])

\* the mutant: the two columns are zipped, the longer one cut to the shorter
DataFrame_zip(times, vals) ==
    LET n == IF Len(times) <= Len(vals) THEN Len(times) ELSE Len(vals)
    IN  Ok([i \in 1..n |-> [Datetime |-> times[i], WBGT |-> vals[i]]])

\* pd.DataFrame({'Datetime': times, 'WBGT': vals})
DataFrame(times, vals) ==
    IF Len(times) # Len(vals)
    THEN Err("ValueError")                    \* arrays must be of the same length
    ELSE Ok([i \in 1..Len(times) |-> [Datetime |-> times[i], WBGT |-> vals[i]]])

\* the mutant: every later day counts as tomorrow
SelectTomorrow_later(df, tomorrow) ==
    SelectSeq(df, LAMBDA row : DateOf(row.Datetime) >= tomorrow)

\* df[df['Datetime'].dt.date == day]
SelectDate(df, day) ==
    SelectSeq(df, LAMBDA row : DateOf(row.Datetime) = day)

SelectTomorrow(df, tomorrow) == SelectDate(df, tomorrow)

\* the frame of parsed points: the reply's two lines, parsed and aligned
ForecastFrame(reply) ==
    IF reply.status = "down" THEN Err("RequestException")
    ELSE
      LET lines == reply.lines IN
      IF Len(lines) < 1 THEN Err("IndexError")            \* lines[0]
      ELSE
        LET hdr_tok == NonEmpty(FromThird(lines[1]))
            parsed  == [i \in 1..Len(hdr_tok) |-> parse_header_time(hdr_tok[i])]
        IN
        IF \E i \in 1..Len(hdr_tok) : ~parsed[i].ok THEN Err("ValueError")
        ELSE IF Len(lines) < 2 THEN Err("IndexError")     \* lines[1]
        ELSE
          LET times    == [i \in 1..Len(hdr_tok) |-> parsed[i].val]
              vals_raw == FromThird(lines[2])
              vals     == [i \in 1..Len(vals_raw) |-> CellValue(vals_raw[i])]
          IN  DataFrame(times, vals)

fetch_forecast(reply, now) ==
    LET df == ForecastFrame(reply) IN
    IF ~df.ok THEN df
    ELSE
      LET today    == TodayAt(now)
          tomorrow == today + 1
      IN  Ok([today    |-> SelectDate(df.val, today),
              tomorrow |-> SelectTomorrow(df.val, tomorrow)])

-----------------------------------------------------------------------------
(* fetch_current: the body under the cache decorator                       *)
(*                                                                         *)
(* The reply's table (pd.read_csv) is a sequence of rows                   *)
(* [Date |-> <<y, m, d>>, Time |-> <<hh, mi>>, val |-> optional], val being *)
(* the third column; NaN is None.                                          *)

\* the 24:00 correction and the combination of Date and Time
RowDatetime(row) ==
    LET d0 == [y |-> row.Date[1], m |-> row.Date[2], d |-> row.Date[3],
               hh |-> 0, mi |-> 0]
    IN  IF row.Time[1] = 24
        THEN [AddDays(d0, 1) EXCEPT !.hh = 0, !.mi = row.Time[2]]
        ELSE [d0 EXCEPT !.hh = row.Time[1], !.mi = row.Time[2]]

\* df[df.iloc[:,2].notna()]
NotNa(rows) == SelectSeq(rows, LAMBDA row : row.val # None)

\* the mutant: the last row is taken whether or not its value is present
LatestRows_all(rows) == rows

LatestRows(rows) == NotNa(rows)

fetch_current(reply) ==
    IF reply.status = "down" THEN Err("RequestException")
    ELSE
      LET present == LatestRows(reply.rows) IN
      IF present = << >> THEN Err("IndexError")           \* .iloc[-1]
      ELSE LET latest == present[Len(present)]
           IN  Ok([Datetime |-> RowDatetime(latest), WBGT |-> latest.val])

-----------------------------------------------------------------------------
(* The advisory of the page: max_today and the three messages              *)

\* Series.max(): NaN entries are skipped, NaN when nothing is left
RECURSIVE SeriesMax(_)
SeriesMax(col) ==
    IF col = << >> THEN None
    ELSE LET rest == SeriesMax(Tail(col)) IN
         IF Head(col) = None THEN rest
         ELSE IF rest = None THEN Head(col)
         ELSE Some(Max(Head(col)[1], rest[1]))

\* the mutant: 28.0 itself does not raise the warning
advisory_strict(today_df) ==
    LET max_today == SeriesMax([i \in 1..Len(today_df) |-> today_df[i].WBGT])
    IN  IF max_today = None THEN "info"
        ELSE IF max_today[1] > 280 THEN "warning"
        ELSE "success"

advisory(today_df) ==
    LET max_today == SeriesMax([i \in 1..Len(today_df) |-> today_df[i].WBGT])
    IN  IF max_today = None THEN "info"          \* pd.isna(max_today)
        ELSE IF max_today[1] >= 280 THEN "warning"
        ELSE "success"

-----------------------------------------------------------------------------
(* st.cache_data(ttl=...): one store per decorated function, keyed by the  *)
(* argument. An entry is [at |-> time stored, res |-> the outcome]. An     *)
(* entry is served while younger than ttl and recomputed once older; at an *)
(* age of exactly ttl either may happen (the comparison belongs to the     *)
(* cache library's version).                                               *)

FORECAST_TTL == 1800
OBS_TTL == 900

NoEntry == [at |-> -1]

\* the mutant: an entry never expires
CanHit_forever(e, ttl, now) == e # NoEntry

CanHit(e, ttl, now) == e # NoEntry /\ now - e.at <= ttl

CanMiss(e, ttl, now) == e = NoEntry \/ now - e.at >= ttl

\* the mutant: the outcome is stored even when the function raised
CacheStore_always(cache, key, now, res) ==
    [cache EXCEPT ![key] = [at |-> now, res |-> res]]

\* a raised exception is not cached
CacheStore(cache, key, now, res) ==
    IF res.ok THEN [cache EXCEPT ![key] = [at |-> now, res |-> res]] ELSE cache

-----------------------------------------------------------------------------
(* State the function-level specifications leave alone                     *)

Regions == {"tokyo", "kanagawa"}

NoCall == [fn |-> "none"]

IdleApp ==
    /\ clock = 0
    /\ fcache = [r \in Regions |-> NoEntry]
    /\ ocache = [r \in Regions |-> NoEntry]
    /\ lastCall = NoCall

-----------------------------------------------------------------------------
(* The upstream feeds                                                      *)

SeqsUpTo(S, n) == UNION {[1..k -> S] : k \in 0..n}

Down == [status |-> "down"]

\* the forecast feed: tokens of the start day at 12 and at 24, of the next
\* day at 24, and one token whose hour no clock shows
ForecastTokens ==
    { <<2024, 12, 30, 12>>, <<2024, 12, 30, 24>>, <<2024, 12, 31, 24>>,
      <<2024, 12, 30, 25>> }

HeaderLines ==
    { << << >>, << >> >> \o s : s \in SeqsUpTo(ForecastTokens \cup {<< >>}, MaxCols) }

ValueLines ==
    { << <<13101>>, <<2024, 12, 30, 20>> >> \o s :
         s \in SeqsUpTo({<< >>, <<275>>, <<280>>}, MaxCols) }

ForecastReplies ==
    {Down} \cup
    { [status |-> "ok", lines |-> ls] :
         ls \in {<< >>} \cup { <<h>> : h \in HeaderLines }
                \cup { <<h, v>> : h \in HeaderLines, v \in ValueLines } }

\* the observation feed: rows of the last two days of the month
ObservationRows ==
    [ Date : { <<2024, 12, 30>>, <<2024, 12, 31>> },
      Time : { <<9, 0>>, <<24, 0>> },
      val  : { None, Some(275), Some(310) } ]

ObservationReplies ==
    {Down} \cup
    { [status |-> "ok", rows |-> rs] : rs \in SeqsUpTo(ObservationRows, MaxRows) }

-----------------------------------------------------------------------------
(* Spec: the two cached functions called by page runs while the clock      *)
(* advances from 23:45 of the start day across midnight                    *)

StartSecond == 23 * 3600 + 45 * 60

Lead == << <<13101>>, <<2024, 12, 30, 20>> >>

ThreeDayHeader ==
    << << >>, << >>, <<2024, 12, 30, 12>>, <<2024, 12, 30, 24>>, <<2024, 12, 31, 24>> >>

\* what the forecast feed may answer: a well-formed reply, a value row one
\* cell short, a reply of one line, and no answer
UpstreamForecast ==
    { [status |-> "ok", lines |-> <<ThreeDayHeader, Lead \o << <<275>>, << >>, <<280>> >> >>],
      [status |-> "ok", lines |-> <<ThreeDayHeader, Lead \o << <<275>>, <<280>> >> >>],
      [status |-> "ok", lines |-> <<ThreeDayHeader>>],
      Down }

\* what the observation feed may answer: a table with present values, one
\* without, and no answer
UpstreamCurrent ==
    { [status |-> "ok", rows |-> << [Date |-> <<2024, 12, 30>>, Time |-> <<23, 0>>, val |-> Some(275)],
                                    [Date |-> <<2024, 12, 30>>, Time |-> <<24, 0>>, val |-> Some(310)],
                                    [Date |-> <<2024, 12, 31>>, Time |-> <<1, 0>>, val |-> None] >>],
      [status |-> "ok", rows |-> << [Date |-> <<2024, 12, 30>>, Time |-> <<24, 0>>, val |-> None] >>],
      Down }

Init ==
    /\ clock = StartSecond
    /\ fcache = [r \in Regions |-> NoEntry]
    /\ ocache = [r \in Regions |-> NoEntry]
    /\ lastCall = NoCall
    /\ arg = None
    /\ ret = None
    /\ pc = "page"

\* fetched: the function body ran, i.e. a request went to the upstream feed
Call(fn, key, fetched, res) ==
    [fn |-> fn, key |-> key, fetched |-> fetched, ret |-> res]

\* fetch_forecast(pref_key) through its cache
CallForecast(r, reply) ==
    /\ \/ /\ CanHit(fcache[r], FORECAST_TTL, clock)
          /\ lastCall' = Call("fetch_forecast", r, FALSE, fcache[r].res)
          /\ UNCHANGED fcache
       \/ /\ CanMiss(fcache[r], FORECAST_TTL, clock)
          /\ LET res == fetch_forecast(reply, clock) IN
             /\ lastCall' = Call("fetch_forecast", r, TRUE, res)
             /\ fcache' = CacheStore(fcache, r, clock, res)
    /\ UNCHANGED <<clock, ocache, arg, ret, pc>>

\* fetch_current(pref_key) through its cache
CallCurrent(r, reply) ==
    /\ \/ /\ CanHit(ocache[r], OBS_TTL, clock)
          /\ lastCall' = Call("fetch_current", r, FALSE, ocache[r].res)
          /\ UNCHANGED ocache
       \/ /\ CanMiss(ocache[r], OBS_TTL, clock)
          /\ LET res == fetch_current(reply) IN
             /\ lastCall' = Call("fetch_current", r, TRUE, res)
             /\ ocache' = CacheStore(ocache, r, clock, res)
    /\ UNCHANGED <<clock, fcache, arg, ret, pc>>

\* time passes
Tick ==
    /\ clock < StartSecond + MaxTicks * TickSeconds
    /\ clock' = clock + TickSeconds
    /\ lastCall' = NoCall
    /\ UNCHANGED <<fcache, ocache, arg, ret, pc>>

Next ==
    \/ \E r \in Regions : \E reply \in UpstreamForecast : CallForecast(r, reply)
    \/ \E r \in Regions : \E reply \in UpstreamCurrent : CallCurrent(r, reply)
    \/ Tick

Spec == Init /\ [][Next]_vars

-----------------------------------------------------------------------------
(* SpecForecast: fetch_forecast applied to every reply, evaluated at noon  *)
(* of the start day and of the day after                                   *)

InitForecast ==
    /\ clock \in {12 * 3600, SecondsPerDay + 12 * 3600}
    /\ fcache = [r \in Regions |-> NoEntry]
    /\ ocache = [r \in Regions |-> NoEntry]
    /\ lastCall = NoCall
    /\ arg \in ForecastReplies
    /\ ret = None
    /\ pc = "call"

FetchForecast ==
    /\ pc = "call"
    /\ ret' = fetch_forecast(arg, clock)
    /\ pc' = "done"
    /\ UNCHANGED <<clock, fcache, ocache, lastCall, arg>>

SpecForecast == InitForecast /\ [][FetchForecast]_vars

-----------------------------------------------------------------------------
(* SpecCurrent: fetch_current applied to every reply                       *)

InitCurrent == IdleApp /\ arg \in ObservationReplies /\ ret = None /\ pc = "call"

FetchCurrent ==
    /\ pc = "call"
    /\ ret' = fetch_current(arg)
    /\ pc' = "done"
    /\ UNCHANGED <<clock, fcache, ocache, lastCall, arg>>

SpecCurrent == InitCurrent /\ [][FetchCurrent]_vars

-----------------------------------------------------------------------------
(* SpecAdvisory: the advisory applied to every series of the bounds        *)

SeriesRows ==
    [ Datetime : { [y |-> 2024, m |-> 12, d |-> 30, hh |-> 12, mi |-> 0] },
      WBGT     : { None, Some(220), Some(275), Some(279), Some(280), Some(281) } ]

InitAdvisory ==
    IdleApp /\ arg \in SeqsUpTo(SeriesRows, MaxSeries) /\ ret = None /\ pc = "call"

Advisory ==
    /\ pc = "call"
    /\ ret' = advisory(arg)
    /\ pc' = "done"
    /\ UNCHANGED <<clock, fcache, ocache, lastCall, arg>>

SpecAdvisory == InitAdvisory /\ [][Advisory]_vars

-----------------------------------------------------------------------------
(* SpecTime: parse_header_time applied to every token of the bounds        *)

Tokens == Years \X (1..12) \X (1..31) \X (0..MaxHourField)

InitTime == IdleApp /\ arg \in Tokens /\ ret = None /\ pc = "call"

ParseHeaderTime ==
    /\ pc = "call"
    /\ ret' = parse_header_time(arg)
    /\ pc' = "done"
    /\ UNCHANGED <<clock, fcache, ocache, lastCall, arg>>

SpecTime == InitTime /\ [][ParseHeaderTime]_vars

-----------------------------------------------------------------------------
(* SpecRisk: risk_level applied to None and to every value of the bounds   *)

InitRisk ==
    /\ IdleApp
    /\ arg \in {None} \cup {Some(v) : v \in (0 - MaxTenths)..MaxTenths}
    /\ ret = None
    /\ pc = "call"

RiskLevel ==
    /\ pc = "call"
    /\ ret' = risk_level(arg)
    /\ pc' = "done"
    /\ UNCHANGED <<clock, fcache, ocache, lastCall, arg>>

SpecRisk == InitRisk /\ [][RiskLevel]_vars

-----------------------------------------------------------------------------
(* C5: parse_header_time keeps the date and hour for hours 0..23 and, for  *)
(* hour 24 and only then, returns the following calendar day at hour 0,    *)
(* across month and year ends.                                             *)

\* the day after y-m-d, by the rules of the civil calendar
CivilNextDay(y, m, d) ==
    IF d < (IF m = 2 THEN (IF y % 4 = 0 /\ (y % 100 # 0 \/ y % 400 = 0) THEN 29 ELSE 28)
            ELSE IF m \in {4, 6, 9, 11} THEN 30 ELSE 31)
    THEN <<y, m, d + 1>>
    ELSE IF m < 12 THEN <<y, m + 1, 1>> ELSE <<y + 1, 1, 1>>

C5_HourRollover ==
    (pc = "done" /\ ValidDate(arg[1], arg[2], arg[3]) /\ arg[4] \in 0..24) =>
        /\ ret.ok
        /\ ret.val.mi = 0
        /\ arg[4] \in 0..23 =>
              <<ret.val.y, ret.val.m, ret.val.d, ret.val.hh>> = arg
        /\ arg[4] = 24 =>
              /\ <<ret.val.y, ret.val.m, ret.val.d>> = CivilNextDay(arg[1], arg[2], arg[3])
              /\ ret.val.hh = 0

\* 2024-12-31 hour 24 has been parsed to 2025-01-01 00:00
C5_Witness ==
    /\ pc = "done"
    /\ arg = <<2024, 12, 31, 24>>
    /\ ret = Ok([y |-> 2025, m |-> 1, d |-> 1, hh |-> 0, mi |-> 0])

-----------------------------------------------------------------------------
(* C1: risk_level is total and follows the rule table: None is N/A         *)
(* (Unknown), below 21 Safe, [21, 25) Caution, [25, 28) Warning, [28, 31)  *)
(* SevereWarning, 31 and above Danger; a boundary value belongs to the     *)
(* higher tier.                                                            *)

TierOf(r) == r[1]

C1_RiskTable ==
    pc = "done" =>
        /\ ret \in { <<"N/A", "#CCCCCC">>, <<"Safe", "#8fd175">>,
                     <<"Caution", "#69c6ff">>, <<"Warning", "#fff15c">>,
                     <<"SevereWarning", "#ffa54c">>, <<"Danger", "#ff4c4c">> }
        /\ (TierOf(ret) = "N/A") <=> (arg = None)
        /\ arg # None =>
              LET v == arg[1] IN
              /\ (TierOf(ret) = "Safe")          <=> (v < 210)
              /\ (TierOf(ret) = "Caution")       <=> (210 <= v /\ v < 250)
              /\ (TierOf(ret) = "Warning")       <=> (250 <= v /\ v < 280)
              /\ (TierOf(ret) = "SevereWarning") <=> (280 <= v /\ v < 310)
              /\ (TierOf(ret) = "Danger")        <=> (v >= 310)

\* the boundary value 28.0 has been classified into the higher tier
C1_Witness ==
    pc = "done" /\ arg = Some(280) /\ TierOf(ret) = "SevereWarning"

-----------------------------------------------------------------------------
(* C2: fetch_current returns, for every table with at least one present    *)
(* value, the row whose normalized timestamp is the maximum among the rows *)
(* with a present value, whatever the order of the rows.                   *)

PresentIdx(rows) == {i \in DOMAIN rows : rows[i].val # None}

C2_LatestTimestamp ==
    (pc = "done" /\ arg.status = "ok" /\ PresentIdx(arg.rows) # {}) =>
        /\ ret.ok
        /\ \A i \in PresentIdx(arg.rows) :
              DtKey(RowDatetime(arg.rows[i])) <= DtKey(ret.val.Datetime)

-----------------------------------------------------------------------------
(* C7: fetch_current fails (the IndexError of the positional selection,    *)
(* the code's NoObservationAvailable) and returns no observation whenever  *)
(* the table holds no row with a present value, the empty table included.  *)

C7_NoObservation ==
    (pc = "done" /\ arg.status = "ok" /\ PresentIdx(arg.rows) = {}) =>
        /\ ~ret.ok
        /\ ret.err = "IndexError"

\* a table of two rows, both without a value, has been refused
C7_Witness ==
    /\ pc = "done"
    /\ arg.status = "ok"
    /\ Len(arg.rows) = 2
    /\ PresentIdx(arg.rows) = {}
    /\ ~ret.ok

-----------------------------------------------------------------------------
(* C4: fetch_forecast partitions the parsed points by the local date D of  *)
(* the evaluation instant: today holds exactly the points of D, tomorrow   *)
(* exactly those of D+1, no point is in both, and of a series covering D,  *)
(* D+1 and a third day both outputs are non-empty and the third day's      *)
(* points are dropped.                                                     *)

Count(seq, x) == Cardinality({i \in DOMAIN seq : seq[i] = x})

PointDates(pts) == {DateOf(pts[i].Datetime) : i \in DOMAIN pts}

C4_Partition ==
    (pc = "done" /\ ret.ok) =>
        LET pts      == ForecastFrame(arg).val
            D        == StartOrd + (clock \div 86400)
            today    == ret.val.today
            tomorrow == ret.val.tomorrow
        IN  /\ \A i \in DOMAIN pts :
                 LET p == pts[i] IN
                 /\ Count(today, p) =
                       (IF DateOf(p.Datetime) = D THEN Count(pts, p) ELSE 0)
                 /\ Count(tomorrow, p) =
                       (IF DateOf(p.Datetime) = D + 1 THEN Count(pts, p) ELSE 0)
            /\ \A i \in DOMAIN today : DateOf(today[i].Datetime) = D
            /\ \A i \in DOMAIN tomorrow : DateOf(tomorrow[i].Datetime) = D + 1
            /\ \A i \in DOMAIN today : \A j \in DOMAIN tomorrow : today[i] # tomorrow[j]
            /\ ({D, D + 1} \subseteq PointDates(pts) /\ PointDates(pts) # {D, D + 1}) =>
                  /\ today # << >>
                  /\ tomorrow # << >>
                  /\ Len(today) + Len(tomorrow) < Len(pts)

\* a series of three days has been split into one point for today, one for
\* tomorrow, the third dropped
C4_Witness ==
    /\ pc = "done"
    /\ ret.ok
    /\ Cardinality(PointDates(ForecastFrame(arg).val)) = 3
    /\ Len(ret.val.today) = 1
    /\ Len(ret.val.tomorrow) = 1

-----------------------------------------------------------------------------
(* C6: fetch_forecast fails and returns no series whenever the reply has   *)
(* fewer than 2 lines or the number of header time tokens differs from the *)
(* number of value cells after the two leading columns.                    *)

DataCells(line) == {i \in DOMAIN line : i > 2}

C6_Malformed ==
    (pc = "done" /\ arg.status = "ok") =>
        LET lines == arg.lines IN
        ( \/ Len(lines) < 2
          \/ Cardinality({i \in DataCells(lines[1]) : lines[1][i] # << >>})
                # Cardinality(DataCells(lines[2])) )
        => ~ret.ok

\* two valid tokens over one value cell have been refused
C6_Witness ==
    /\ pc = "done"
    /\ arg.status = "ok"
    /\ Len(arg.lines) = 2
    /\ FromThird(arg.lines[1]) = << <<2024, 12, 30, 12>>, <<2024, 12, 30, 24>> >>
    /\ Len(FromThird(arg.lines[2])) = 1
    /\ ret = Err("ValueError")

-----------------------------------------------------------------------------
(* C9: the advisory is NoForecastData ("info") iff today's series has no   *)
(* present value, else HeatWorkCheckRequired ("warning") iff the maximum   *)
(* of the present values is at least 28.0, else HeatWorkCheckNotRequired   *)
(* ("success"); absent entries never affect the maximum.                   *)

PresentValues(series) ==
    {series[i].WBGT[1] : i \in {j \in DOMAIN series : series[j].WBGT # None}}

C9_Advisory ==
    pc = "done" =>
        LET present == PresentValues(arg) IN
        /\ ret \in {"info", "warning", "success"}
        /\ (ret = "info") <=> (present = {})
        /\ (ret = "warning") <=> (\E v \in present : v >= 280)
        /\ (ret = "success") <=> (present # {} /\ \A v \in present : v < 280)

\* a series whose maximum is exactly 28.0, with an absent entry, has raised
\* the warning
C9_Witness ==
    /\ pc = "done"
    /\ Len(arg) = 3
    /\ PresentValues(arg) = {220, 280}
    /\ ret = "warning"

-----------------------------------------------------------------------------
(* C3: for each (function, region) key, a call made while the stored entry *)
(* is younger than the function's time-to-live (forecast 1800 s,           *)
(* observation 900 s) returns the stored result, issues no request and     *)
(* leaves the cache alone; a call made with no entry, or once the entry is *)
(* older than the time-to-live, issues a request and stores the fresh      *)
(* result stamped with the current time.                                   *)

CachedCallOK(fn, ttl, cache, cacheAfter) ==
    lastCall'.fn = fn =>
        LET k == lastCall'.key
            e == cache[k]
        IN  /\ (e # NoEntry /\ clock - e.at < ttl) =>
                  /\ ~lastCall'.fetched
                  /\ lastCall'.ret = e.res
                  /\ cacheAfter = cache
            /\ (e = NoEntry \/ clock - e.at > ttl) =>
                  /\ lastCall'.fetched
                  /\ lastCall'.ret.ok =>
                        cacheAfter[k] = [at |-> clock, res |-> lastCall'.ret]
            /\ \A r \in Regions \ {k} : cacheAfter[r] = cache[r]

C3_CacheTTL ==
    [][ clock' = clock =>
          /\ CachedCallOK("fetch_forecast", 1800, fcache, fcache')
          /\ CachedCallOK("fetch_current", 900, ocache, ocache') ]_vars

\* a forecast call has been served from an entry stored 20 minutes earlier
C3_Witness ==
    /\ lastCall.fn = "fetch_forecast"
    /\ ~lastCall.fetched
    /\ clock - fcache[lastCall.key].at = 1200
    /\ lastCall.ret = fcache[lastCall.key].res

-----------------------------------------------------------------------------
(* C8: a call whose underlying fetch fails hands the error to the caller   *)
(* and leaves both caches as they were; no entry ever holds a failed       *)
(* outcome, and a call served from the cache never returns one.            *)

EntriesOk(cache) == \A r \in Regions : cache[r] # NoEntry => cache[r].res.ok

C8_ErrorIsolation ==
    [][ (clock' = clock /\ lastCall'.fn # "none") =>
          /\ ~lastCall'.ret.ok => (lastCall'.fetched /\ fcache' = fcache /\ ocache' = ocache)
          /\ ~lastCall'.fetched => lastCall'.ret.ok
          /\ EntriesOk(fcache') /\ EntriesOk(ocache') ]_vars

\* a refresh of an expired forecast entry has failed on a malformed reply,
\* and the entry stored 40 minutes earlier is still there
C8_Witness ==
    /\ lastCall.fn = "fetch_forecast"
    /\ lastCall.fetched
    /\ lastCall.ret = Err("ValueError")
    /\ fcache[lastCall.key] # NoEntry
    /\ clock - fcache[lastCall.key].at = 2400

-----------------------------------------------------------------------------
(* C10: the today series a forecast call returns holds only points of the  *)
(* local date at the instant of that call, and tomorrow only points of the *)
(* following date, also when the call is served from the cache.            *)

C10_TodayIsCallDate ==
    (lastCall.fn = "fetch_forecast" /\ lastCall.ret.ok) =>
        LET D == StartOrd + (clock \div 86400) IN
        /\ \A i \in DOMAIN lastCall.ret.val.today :
              DateOf(lastCall.ret.val.today[i].Datetime) = D
        /\ \A i \in DOMAIN lastCall.ret.val.tomorrow :
              DateOf(lastCall.ret.val.tomorrow[i].Datetime) = D + 1

====
